---- MODULE Spec2Model ----
(***************************************************************************)
(* Model of lib/queryExecutionContext/documentProducer.js:                 *)
(*   - DocumentProducer: the per-partition buffer of fetched documents,    *)
(*     with its continuation tokens, exhaustion flag and sticky error;     *)
(*   - OrderByDocumentProducerComparator: the order-by comparator over     *)
(*     the head items of two producers.                                    *)
(* Spec drives one producer through its operations; the fetch layer        *)
(* (DefaultQueryExecutionContext.fetchMore) is the environment.            *)
(***************************************************************************)
EXTENDS Integers, Sequences, FiniteSets, TLC

\* ------------------------------------------------------------------ bounds
\* documents a partition can serve in all
MaxDocs == 3
\* documents in one fetched page
MaxPage == 2
\* cap of the accumulated response-header charge
MaxCharge == 2
\* the fetches of one call are counted up to this number
MaxFetchCount == 2

\* ------------------------------------------------------------ JS values
\* the JS value undefined where a string-like value is expected
\* (err, continuation tokens)
Undefined == "undefined"
\* the JS value undefined where a document is expected
UndefinedItem == 0
\* the JS value undefined where response headers are expected
UndefinedHeaders == -1

Errors == {"E1", "E2"}
Tokens == {Undefined, "null", "t1", "t2"}

\* HeaderUtils.getInitialHeader(): the empty accumulator
getInitialHeader == 0
\* HeaderUtils.mergeHeaders(headers, toBeMerged): additive merge
mergeHeaders(headers, toBeMerged) ==
    IF toBeMerged = UndefinedHeaders THEN headers ELSE headers + toBeMerged

VARIABLES
    producer,          \* the DocumentProducer object
    ctx,               \* its internalExecutionContext (the fetch layer)
    call,              \* the latest operation called on the producer
    fetchMoreInvoked,  \* the last step invoked internalExecutionContext.fetchMore
    refilled,          \* documents appended by bufferMore since the last drain
    shifted,           \* documents removed by nextItem since the last drain
    history,           \* what was fetched and what was handed out so far
    docProds,          \* the two producers handed to the order-by comparator
    sortOrder,         \* the sortOrder of the OrderByDocumentProducerComparator
    comparison         \* the latest call of compare and its outcome

vars == <<producer, ctx, call, fetchMoreInvoked, refilled, shifted, history,
          docProds, sortOrder, comparison>>

\* ------------------------------------------------------ DocumentProducer
\* constructor
DocumentProducer(targetPartitionKeyRange) ==
    [ targetPartitionKeyRange   |-> targetPartitionKeyRange,
      itemsBuffer               |-> <<>>,
      allFetched                |-> FALSE,
      err                       |-> Undefined,
      previousContinuationToken |-> Undefined,
      continuationToken         |-> Undefined,
      respHeaders               |-> getInitialHeader ]

\* what a handler hands on: a callback invocation, a pending fetchMore, or
\* a thrown AssertionError
Callback(err, item, defined, items, headers) ==
    [ kind |-> "callback", err |-> err, item |-> item,
      defined |-> defined, items |-> items, headers |-> headers ]
FetchMore ==
    [ kind |-> "fetchMore", err |-> Undefined, item |-> UndefinedItem,
      defined |-> FALSE, items |-> <<>>, headers |-> UndefinedHeaders ]
Throw ==
    [ kind |-> "throw", err |-> Undefined, item |-> UndefinedItem,
      defined |-> FALSE, items |-> <<>>, headers |-> UndefinedHeaders ]

\* peekBufferedItems, had it handed the buffer over as consumeBufferedItems does
peekBufferedItems_Drains(p) ==
    [ p |-> [p EXCEPT !.itemsBuffer = <<>>], ret |-> p.itemsBuffer ]

peekBufferedItems(p) == [ p |-> p, ret |-> p.itemsBuffer ]

getAndResetActiveResponseHeaders(p) ==
    [ p |-> [p EXCEPT !.respHeaders = getInitialHeader], ret |-> p.respHeaders ]

\* _updateStates, had it overwritten continuationToken without keeping it
updateStates_NoPrevious(p, continuation, err, allFetched) ==
    IF err # Undefined
    THEN [p EXCEPT !.err = err]
    ELSE LET p1 == IF allFetched THEN [p EXCEPT !.allFetched = TRUE] ELSE p
         IN  [p1 EXCEPT !.continuationToken = continuation]

\* _updateStates, had it assigned this.err before looking at err
updateStates_AssignsErr(p, continuation, err, allFetched) ==
    LET p0 == [p EXCEPT !.err = err]
        p1 == IF allFetched THEN [p0 EXCEPT !.allFetched = TRUE] ELSE p0
    IN  IF err # Undefined THEN p0
        ELSE IF continuation = p1.continuationToken THEN p1
        ELSE [p1 EXCEPT !.previousContinuationToken = p1.continuationToken,
                        !.continuationToken = continuation]

\* _updateStates, had it set allFetched before looking at err
updateStates_ExhaustsOnError(p, continuation, err, allFetched) ==
    LET p1 == IF allFetched THEN [p EXCEPT !.allFetched = TRUE] ELSE p
    IN  IF err # Undefined THEN [p1 EXCEPT !.err = err]
        ELSE IF continuation = p1.continuationToken THEN p1
        ELSE [p1 EXCEPT !.previousContinuationToken = p1.continuationToken,
                        !.continuationToken = continuation]

\* continuation is internalExecutionContext.continuation
updateStates(p, continuation, err, allFetched) ==
    IF err # Undefined
    THEN [p EXCEPT !.err = err]
    ELSE LET p1 == IF allFetched THEN [p EXCEPT !.allFetched = TRUE] ELSE p
         IN  IF continuation = p1.continuationToken
             THEN p1
             ELSE [p1 EXCEPT !.previousContinuationToken = p1.continuationToken,
                             !.continuationToken = continuation]

\* consumeBufferedItems, had it left the buffer as it was
consumeBufferedItems_KeepsBuffer(p, continuation) ==
    [ p   |-> updateStates(p, continuation, Undefined,
                           p.continuationToken = "null" \/ p.continuationToken = Undefined),
      ret |-> p.itemsBuffer ]

consumeBufferedItems(p, continuation) ==
    [ p   |-> updateStates([p EXCEPT !.itemsBuffer = <<>>], continuation, Undefined,
                           p.continuationToken = "null" \/ p.continuationToken = Undefined),
      ret |-> p.itemsBuffer ]

\* bufferMore, had it not looked at the stored error
bufferMore_NoErrCheck(p) == [ p |-> p, out |-> FetchMore ]

\* bufferMore up to the point where it calls back or invokes fetchMore
bufferMore(p) ==
    IF p.err # Undefined
    THEN [ p |-> p, out |-> Callback(p.err, UndefinedItem, FALSE, <<>>, UndefinedHeaders) ]
    ELSE [ p |-> p, out |-> FetchMore ]

\* bufferMore's callback, had it put the new page in front of the buffer
bufferMoreCallback_Prepends(p, continuation, f) ==
    LET p1 == updateStates(p, continuation, f.err, ~f.defined)
    IN  IF f.err # Undefined
        THEN [ p |-> p1, out |-> Callback(f.err, UndefinedItem, FALSE, <<>>, f.headers) ]
        ELSE [ p   |-> IF f.defined
                       THEN [p1 EXCEPT !.itemsBuffer = f.items \o @]
                       ELSE p1,
               out |-> Callback(Undefined, UndefinedItem, f.defined, f.items, f.headers) ]

\* the function bufferMore passes to fetchMore; f is what the fetch layer
\* reports (err, resources, headerResponse), continuation its cursor then
bufferMoreCallback(p, continuation, f) ==
    LET p1 == updateStates(p, continuation, f.err, ~f.defined)
    IN  IF f.err # Undefined
        THEN [ p |-> p1, out |-> Callback(f.err, UndefinedItem, FALSE, <<>>, f.headers) ]
        ELSE [ p   |-> IF f.defined
                       THEN [p1 EXCEPT !.itemsBuffer = @ \o f.items]
                       ELSE p1,
               out |-> Callback(Undefined, UndefinedItem, f.defined, f.items, f.headers) ]

\* current, had it taken the head item out of the buffer
current_Shifts(p) ==
    IF Len(p.itemsBuffer) > 0
    THEN LET h == getAndResetActiveResponseHeaders(p)
         IN  [ p |-> [h.p EXCEPT !.itemsBuffer = Tail(@)],
               out |-> Callback(Undefined, p.itemsBuffer[1], FALSE, <<>>, h.ret) ]
    ELSE IF p.allFetched
    THEN LET h == getAndResetActiveResponseHeaders(p)
         IN  [ p |-> h.p, out |-> Callback(Undefined, UndefinedItem, FALSE, <<>>, h.ret) ]
    ELSE bufferMore(p)

\* current up to the point where it calls back or invokes fetchMore
current(p) ==
    IF Len(p.itemsBuffer) > 0
    THEN LET h == getAndResetActiveResponseHeaders(p)
         IN  [ p |-> h.p, out |-> Callback(Undefined, p.itemsBuffer[1], FALSE, <<>>, h.ret) ]
    ELSE IF p.allFetched
    THEN LET h == getAndResetActiveResponseHeaders(p)
         IN  [ p |-> h.p, out |-> Callback(Undefined, UndefinedItem, FALSE, <<>>, h.ret) ]
    ELSE bufferMore(p)

\* current's callback, had it fetched again after a failed fetch
currentCallback_RetriesOnError(p, b) ==
    IF b.err # Undefined
    THEN [ p |-> p, out |-> FetchMore ]
    ELSE IF ~b.defined
    THEN [ p |-> p, out |-> Callback(Undefined, UndefinedItem, FALSE, <<>>, b.headers) ]
    ELSE current([p EXCEPT !.respHeaders = mergeHeaders(@, b.headers)])

\* the function current passes to bufferMore; b is bufferMore's callback
currentCallback(p, b) ==
    IF b.err # Undefined
    THEN [ p |-> p, out |-> Callback(b.err, UndefinedItem, FALSE, <<>>, b.headers) ]
    ELSE IF ~b.defined
    THEN [ p |-> p, out |-> Callback(Undefined, UndefinedItem, FALSE, <<>>, b.headers) ]
    ELSE current([p EXCEPT !.respHeaders = mergeHeaders(@, b.headers)])

\* nextItem's callback, had it removed the last buffered item (pop for shift)
nextItemCallback_Pops(p, c) ==
    IF c.err # Undefined
    THEN [ p |-> p, out |-> Callback(c.err, UndefinedItem, FALSE, <<>>, c.headers) ]
    ELSE LET n == Len(p.itemsBuffer)
             extracted == IF n = 0 THEN UndefinedItem ELSE p.itemsBuffer[n]
             p1 == [p EXCEPT !.itemsBuffer = IF n = 0 THEN <<>> ELSE SubSeq(@, 1, n - 1)]
         IN  IF extracted = c.item
             THEN [ p |-> p1, out |-> Callback(Undefined, c.item, FALSE, <<>>, c.headers) ]
             ELSE [ p |-> p1, out |-> Throw ]

\* the function nextItem passes to current; c is current's callback
nextItemCallback(p, c) ==
    IF c.err # Undefined
    THEN [ p |-> p, out |-> Callback(c.err, UndefinedItem, FALSE, <<>>, c.headers) ]
    ELSE LET extracted == IF p.itemsBuffer = <<>> THEN UndefinedItem
                          ELSE Head(p.itemsBuffer)
             p1 == [p EXCEPT !.itemsBuffer = IF @ = <<>> THEN <<>> ELSE Tail(@)]
         IN  IF extracted = c.item
             THEN [ p |-> p1, out |-> Callback(Undefined, c.item, FALSE, <<>>, c.headers) ]
             ELSE [ p |-> p1, out |-> Throw ]

\* nextItem up to the point where it calls back or invokes fetchMore
nextItem(p) ==
    IF p.err # Undefined
    THEN [ p |-> p, out |-> Callback(p.err, UndefinedItem, FALSE, <<>>, UndefinedHeaders) ]
    ELSE LET r == current(p)
         IN  IF r.out.kind = "fetchMore" THEN r ELSE nextItemCallback(r.p, r.out)

\* ------------------------------------------- JS values of order-by items
\* A JS value is [js, v]: js names what the value is, v holds its content as
\* a sequence of numbers: <<0>> or <<1>> for false and true, <<n>> for the
\* number n, the code units for a string, <<>> for undefined and null.
JsUndefined == [ js |-> "undefined", v |-> <<>> ]
JsNull == [ js |-> "null", v |-> <<>> ]
JsBoolean(b) == [ js |-> "boolean", v |-> <<IF b THEN 1 ELSE 0>> ]
JsNumber(n) == [ js |-> "number", v |-> <<n>> ]
JsString(codeUnits) == [ js |-> "string", v |-> codeUnits ]

\* the typeof operator
typeof(x) == IF x.js = "null" THEN "object" ELSE x.js

\* a > b on two strings: by code units, a proper prefix being smaller
RECURSIVE StringGreater(_, _)
StringGreater(a, b) ==
    IF a = <<>> THEN FALSE
    ELSE IF b = <<>> THEN TRUE
    ELSE IF Head(a) # Head(b) THEN Head(a) > Head(b)
    ELSE StringGreater(Tail(a), Tail(b))

\* a > b on two values of the same type boolean, number or string
JsGreater(a, b) ==
    IF a.js = "string" THEN StringGreater(a.v, b.v) ELSE a.v[1] > b.v[1]

\* An order-by item is an object: props are the names of its own
\* properties, item is what reading orderByItem['item'] gives.
OrderByItem(x) == [ props |-> {"item"}, item |-> x ]
\* the order-by item that carries no 'item' property
NoItem == [ props |-> {}, item |-> JsUndefined ]

\* --------------------------------------- OrderByDocumentProducerComparator
Return(value) == [ kind |-> "return", value |-> value, error |-> "" ]
ThrowError(error) == [ kind |-> "throw", value |-> 0, error |-> error ]

getTargetParitionKeyRange(p) == p.targetPartitionKeyRange

\* the comparator of createTargetPartitionKeyRangeComparator
targetPartitionKeyRangeDocProdComparator(docProd1, docProd2) ==
    LET a == getTargetParitionKeyRange(docProd1).minInclusive
        b == getTargetParitionKeyRange(docProd2).minInclusive
    IN  IF a = b THEN 0 ELSE IF StringGreater(a, b) THEN 1 ELSE -1

\* the keys of _typeOrdComparator and their ord
TypeOrdKeys == {"NoValue", "undefined", "boolean", "number", "string"}
typeOrd(type) ==
    CASE type = "NoValue"   -> 0
      [] type = "undefined" -> 1
      [] type = "boolean"   -> 2
      [] type = "number"    -> 4
      [] type = "string"    -> 5

\* the compFunc of boolean, number and string
compFunc(a, b) == IF a = b THEN 0 ELSE IF JsGreater(a, b) THEN 1 ELSE -1

\* !'item' in orderByItem is (!'item') in orderByItem, that is
\* false in orderByItem: whether the object has a property named "false"
getType(orderByItem) ==
    IF "false" \in orderByItem.props THEN "NoValue" ELSE typeof(orderByItem.item)

\* reading .ord of a type that _typeOrdComparator does not hold is a TypeError
compareValue(item1, type1, item2, type2) ==
    IF type1 \notin TypeOrdKeys \/ type2 \notin TypeOrdKeys
    THEN ThrowError("TypeError")
    ELSE LET type1Ord == typeOrd(type1)
             type2Ord == typeOrd(type2)
             typeCmp == type1Ord - type2Ord
         IN  IF typeCmp # 0 THEN Return(typeCmp)
             ELSE IF type1Ord = typeOrd("undefined") \/ type1Ord = typeOrd("NoValue")
             THEN Return(0)
             ELSE Return(compFunc(item1, item2))

compareOrderByItem(orderByItem1, orderByItem2) ==
    compareValue(orderByItem1.item, getType(orderByItem1),
                 orderByItem2.item, getType(orderByItem2))

\* validateOrderByItems, had it checked the lengths only
validateOrderByItems_LengthsOnly(res1, res2, order) ==
    /\ Len(res1) = Len(res2)
    /\ Len(res1) = Len(order)

\* TRUE when validateOrderByItems returns, FALSE when it throws
validateOrderByItems(res1, res2, order) ==
    /\ Len(res1) = Len(res2)
    /\ Len(res1) = Len(order)
    /\ \A i \in 1..Len(order) : getType(res1[i]) = getType(res2[i])

\* the for loop of compare from key i on, then the partition tie-break
RECURSIVE compareFrom(_, _, _, _, _, _)
compareFrom(i, res1, res2, order, docProd1, docProd2) ==
    IF i > Len(res1)
    THEN Return(targetPartitionKeyRangeDocProdComparator(docProd1, docProd2))
    ELSE LET compRes == compareOrderByItem(res1[i], res2[i])
         IN  IF compRes.kind = "throw" THEN compRes
             ELSE IF compRes.value # 0 /\ order[i] = "Ascending"
             THEN Return(compRes.value)
             ELSE IF compRes.value # 0 /\ order[i] = "Descending"
             THEN Return(-compRes.value)
             ELSE compareFrom(i + 1, res1, res2, order, docProd1, docProd2)

getOrderByItems(res) == res.orderByItems

\* compare: its outcome and the two producers as the call leaves them;
\* reading [0] of an empty buffer gives undefined, and getOrderByItems of
\* undefined is a TypeError
compare(docProd1, docProd2, order) ==
    LET peek1 == peekBufferedItems(docProd1)
        peek2 == peekBufferedItems(docProd2)
        out == IF peek1.ret = <<>> \/ peek2.ret = <<>> THEN ThrowError("TypeError")
               ELSE LET orderByItemsRes1 == getOrderByItems(peek1.ret[1])
                        orderByItemsRes2 == getOrderByItems(peek2.ret[1])
                    IN  IF ~validateOrderByItems(orderByItemsRes1, orderByItemsRes2, order)
                        THEN ThrowError("Error")
                        ELSE compareFrom(1, orderByItemsRes1, orderByItemsRes2, order,
                                         peek1.p, peek2.p)
    IN  [ out |-> out, docProd1 |-> peek1.p, docProd2 |-> peek2.p ]

\* --------------------------------------- internalExecutionContext.fetchMore
\* What one fetch can report, with the cursor the context shows afterwards.
\* An error leaves the cursor; a page holds the next documents of the
\* partition in document order; absent resources are the end of the data.
FetchResults(c, p) ==
    { [ err |-> e, defined |-> FALSE, items |-> <<>>, headers |-> h,
        continuation |-> c.continuation, served |-> c.served, ended |-> c.ended ] :
        e \in Errors, h \in 0..1 }
    \cup
    { [ err |-> Undefined, defined |-> TRUE,
        items |-> [i \in 1..k |-> c.served + i], headers |-> h,
        continuation |-> t, served |-> c.served + k, ended |-> FALSE ] :
        k \in { n \in 0..MaxPage : ~c.ended /\ c.served + n <= MaxDocs },
        h \in { n \in 0..1 : p.respHeaders + n <= MaxCharge },
        t \in Tokens }
    \cup
    { [ err |-> Undefined, defined |-> FALSE, items |-> <<>>, headers |-> h,
        continuation |-> Undefined, served |-> c.served, ended |-> TRUE ] :
        h \in 0..1 }

\* ------------------------------------------------------------- operations
Range(s) == { s[i] : i \in DOMAIN s }

\* call describes the latest operation called on the producer: its name,
\* whether it has returned or called back (done) or thrown, what it handed
\* to its callback or returned, and what it did to the buffer
NoCall ==
    [ op |-> "none", done |-> TRUE, thrown |-> FALSE, errAtCall |-> Undefined,
      err |-> Undefined, item |-> UndefinedItem, defined |-> FALSE,
      items |-> <<>>, headers |-> UndefinedHeaders, removed |-> {},
      fetches |-> 0, lastPageEmpty |-> FALSE, metadata |-> 0 ]

\* the documents of the buffer before that are no longer in the buffer after
Removed(before, after) == Range(before.itemsBuffer) \ Range(after.itemsBuffer)

\* the record of a call that has run up to r.out
CallRecord(c, r, removed) ==
    [ c EXCEPT !.done = r.out.kind # "fetchMore", !.thrown = r.out.kind = "throw",
               !.err = r.out.err, !.item = r.out.item, !.defined = r.out.defined,
               !.items = r.out.items, !.headers = r.out.headers,
               !.removed = removed ]

cmpVars == <<docProds, sortOrder, comparison>>
prodVars == <<producer, ctx, call, fetchMoreInvoked, refilled, shifted, history>>

\* history: the documents of all fetched pages in fetch order (fetched), the
\* documents handed out by nextItem and consumeBufferedItems in the order
\* they were handed out (delivered), and whether a fetch has reported the
\* end of the data, by absent resources or by a cursor that is undefined
\* or null (endReported)
NoHistory == [ fetched |-> <<>>, delivered |-> <<>>, endReported |-> FALSE ]

\* the document the call recorded in c has handed out through nextItem
HandedOut(c) ==
    IF c.op = "nextItem" /\ c.done /\ ~c.thrown /\ c.err = Undefined
          /\ c.item # UndefinedItem
    THEN <<c.item>> ELSE <<>>

NoComparison == [ kind |-> "none", value |-> 0, error |-> "" ]

\* one producer, freshly constructed, and no comparator at work
Init ==
    /\ docProds = <<>>
    /\ sortOrder = <<>>
    /\ comparison = NoComparison
    /\ producer = DocumentProducer([ minInclusive |-> <<>> ])
    /\ ctx = [ continuation |-> Undefined, served |-> 0, ended |-> FALSE ]
    /\ call = NoCall
    /\ fetchMoreInvoked = FALSE
    /\ refilled = <<>>
    /\ shifted = 0
    /\ history = NoHistory

\* a call of op runs up to its callback or up to fetchMore
Proceed(op, r) ==
    /\ producer' = r.p
    /\ call' = CallRecord([NoCall EXCEPT !.op = op, !.errAtCall = producer.err,
                                         !.metadata = producer.respHeaders],
                          r, Removed(producer, r.p))
    /\ fetchMoreInvoked' = (r.out.kind = "fetchMore")
    /\ shifted' = shifted + Cardinality(Removed(producer, r.p))
    /\ history' = [history EXCEPT !.delivered = @ \o HandedOut(call')]
    /\ UNCHANGED <<ctx, refilled>>
    /\ UNCHANGED cmpVars

\* The operations are called one at a time (call.done): the coordinator
\* issues no operation on a producer while another one is in flight.
CallBufferMore ==
    /\ call.done
    /\ Proceed("bufferMore", bufferMore(producer))

CallCurrent ==
    /\ call.done
    /\ Proceed("current", current(producer))

CallNextItem ==
    /\ call.done
    /\ Proceed("nextItem", nextItem(producer))

\* what the pending call of op does when fetchMore calls back with f
Resume(op, p, continuation, f) ==
    LET b == bufferMoreCallback(p, continuation, f) IN
    IF op = "bufferMore" THEN b
    ELSE LET r == currentCallback(b.p, b.out) IN
         IF op = "current" \/ r.out.kind = "fetchMore" THEN r
         ELSE nextItemCallback(r.p, r.out)

\* the fetch layer invokes the callback of the pending fetchMore
FetchComplete ==
    /\ ~call.done
    /\ \E f \in FetchResults(ctx, producer) :
          LET r == Resume(call.op, producer, f.continuation, f)
              appended == IF f.err = Undefined /\ f.defined THEN f.items ELSE <<>>
              removed == (Range(producer.itemsBuffer) \cup Range(appended))
                             \ Range(r.p.itemsBuffer)
          IN  /\ ctx' = [ continuation |-> f.continuation, served |-> f.served,
                          ended |-> f.ended ]
              /\ producer' = r.p
              /\ call' = CallRecord(
                    [call EXCEPT !.fetches = IF @ < MaxFetchCount THEN @ + 1 ELSE @,
                                 !.lastPageEmpty = (f.err = Undefined /\ f.defined
                                                      /\ f.items = <<>>),
                                 !.metadata = @ + f.headers],
                    r, removed)
              /\ fetchMoreInvoked' = (r.out.kind = "fetchMore")
              /\ refilled' = refilled \o appended
              /\ shifted' = shifted + Cardinality(removed)
              /\ history' =
                    [ fetched     |-> history.fetched \o appended,
                      delivered   |-> history.delivered \o HandedOut(call'),
                      endReported |-> \/ history.endReported
                                      \/ /\ f.err = Undefined
                                         /\ (~f.defined \/ f.continuation \in {Undefined, "null"}) ]
    /\ UNCHANGED cmpVars

ConsumeBufferedItems ==
    /\ call.done
    /\ LET r == consumeBufferedItems(producer, ctx.continuation) IN
       /\ producer' = r.p
       /\ call' = [NoCall EXCEPT !.op = "consumeBufferedItems",
                                 !.errAtCall = producer.err,
                                 !.defined = TRUE, !.items = r.ret,
                                 !.removed = Removed(producer, r.p)]
    /\ fetchMoreInvoked' = FALSE
    /\ refilled' = <<>>
    /\ shifted' = 0
    /\ history' = [history EXCEPT !.delivered = @ \o call'.items]
    /\ UNCHANGED ctx
    /\ UNCHANGED cmpVars

PeekBufferedItems ==
    /\ call.done
    /\ LET r == peekBufferedItems(producer) IN
       /\ producer' = r.p
       /\ call' = [NoCall EXCEPT !.op = "peekBufferedItems",
                                 !.errAtCall = producer.err,
                                 !.defined = TRUE, !.items = r.ret,
                                 !.removed = Removed(producer, r.p)]
    /\ fetchMoreInvoked' = FALSE
    /\ UNCHANGED <<ctx, refilled, shifted, history>>
    /\ UNCHANGED cmpVars

Next ==
    \/ CallBufferMore
    \/ CallCurrent
    \/ CallNextItem
    \/ FetchComplete
    \/ ConsumeBufferedItems
    \/ PeekBufferedItems

Spec == Init /\ [][Next]_vars

\* every pending fetchMore eventually invokes its callback
FairSpec == Spec /\ WF_vars(FetchComplete)

\* ------------------------------------------------- the comparator at work
\* the partition lower bounds "0000", "3FFF", "A", "M" and "Z"
MinBounds ==
    { <<48, 48, 48, 48>>, <<51, 70, 70, 70>>, <<65>>, <<77>>, <<90>> }

\* the values of order-by items: absent, undefined, null, false, true,
\* 5, 10, "a" and "b"
OrderByItems ==
    { NoItem, OrderByItem(JsUndefined), OrderByItem(JsNull),
      OrderByItem(JsBoolean(FALSE)), OrderByItem(JsBoolean(TRUE)),
      OrderByItem(JsNumber(5)), OrderByItem(JsNumber(10)),
      OrderByItem(JsString(<<97>>)), OrderByItem(JsString(<<98>>)) }

\* the sort orders of queries ordered by one key or by two
SortOrders ==
    { <<"Ascending">>, <<"Descending">>,
      <<"Ascending", "Ascending">>, <<"Ascending", "Descending">>,
      <<"Descending", "Ascending">>, <<"Descending", "Descending">> }

\* the orderByItems a document can carry under these sort orders
OrderByItemLists ==
    UNION { [1..Len(order) -> OrderByItems] : order \in SortOrders }

\* a producer of the partition from min on that has buffered one document
BufferedProducer(min, orderByItems) ==
    [ DocumentProducer([ minInclusive |-> min ])
        EXCEPT !.itemsBuffer = << [ orderByItems |-> orderByItems ] >> ]

\* two producers with a buffered head document each, and a comparator
InitCmp ==
    /\ sortOrder \in SortOrders
    /\ \E min1 \in MinBounds, min2 \in MinBounds :
       \E res1 \in OrderByItemLists, res2 \in OrderByItemLists :
          docProds = << BufferedProducer(min1, res1), BufferedProducer(min2, res2) >>
    /\ comparison = NoComparison
    /\ producer = DocumentProducer([ minInclusive |-> <<>> ])
    /\ ctx = [ continuation |-> Undefined, served |-> 0, ended |-> FALSE ]
    /\ call = NoCall
    /\ fetchMoreInvoked = FALSE
    /\ refilled = <<>>
    /\ shifted = 0
    /\ history = NoHistory

\* the coordinator calls compare(docProds[1], docProds[2])
Compare ==
    /\ comparison.kind = "none"
    /\ LET r == compare(docProds[1], docProds[2], sortOrder) IN
       /\ comparison' = r.out
       /\ docProds' = << r.docProd1, r.docProd2 >>
    /\ UNCHANGED sortOrder
    /\ UNCHANGED prodVars

NextCmp == Compare

CmpSpec == InitCmp /\ [][NextCmp]_vars

\* ------------------------------------------------------------------ claims
Async == {"current", "bufferMore", "nextItem"}

\* C1 (as claimed): a call of current, bufferMore or nextItem made after a
\* fetch of the producer has failed with E reports E to its callback, in
\* every buffer and exhaustion state.
C1_StickyError ==
    (call.op \in Async /\ call.done /\ call.errAtCall # Undefined)
        => call.err = call.errAtCall

\* C2: once a fetch of the producer has failed, no step invokes
\* internalExecutionContext.fetchMore any more.
C2_NoFetchAfterError ==
    producer.err # Undefined => ~fetchMoreInvoked

\* an operation called after the failure has short-circuited with the error
C2_Witness ==
    /\ producer.err # Undefined
    /\ call.op = "current" /\ call.done
    /\ call.errAtCall = producer.err /\ call.err = producer.err
    /\ call.fetches = 0

\* C3 (as claimed): every nextItem that completes without error removes
\* exactly one item from the buffer, the one current handed to the callback.
C3_SingleRemovalAlways ==
    (call.op = "nextItem" /\ call.done /\ ~call.thrown /\ call.err = Undefined)
        => call.removed = {call.item}

\* C3 (amended): the identity assertion of nextItem never fails; a nextItem
\* that hands an item to its callback has removed exactly that item, and one
\* that reports an error or "no item" has removed nothing, "no item" being
\* reported only with an empty buffer.
C3_SingleRemoval ==
    (call.op = "nextItem" /\ call.done) =>
        /\ ~call.thrown
        /\ (call.err = Undefined /\ call.item # UndefinedItem)
               => call.removed = {call.item}
        /\ (call.err # Undefined \/ call.item = UndefinedItem)
               => call.removed = {}
        /\ (call.err = Undefined /\ call.item = UndefinedItem)
               => producer.itemsBuffer = <<>>

\* nextItem has removed the head of a buffer of several items
C3_Witness ==
    /\ call.op = "nextItem" /\ call.done /\ call.err = Undefined
    /\ call.item # UndefinedItem /\ call.removed = {call.item}
    /\ producer.itemsBuffer # <<>>

\* C4: when only bufferMore has changed the buffer since it was last empty
\* (no nextItem removal since the last drain), consumeBufferedItems returns
\* the fetched pages concatenated in fetch order and leaves the buffer
\* empty; peekBufferedItems returns the same sequence and changes nothing
\* in the producer.
C4_Draining ==
    [][ /\ (ConsumeBufferedItems /\ shifted = 0)
            => (call'.items = refilled /\ producer'.itemsBuffer = <<>>)
        /\ (PeekBufferedItems /\ shifted = 0)
            => (call'.items = refilled /\ producer' = producer /\ ctx' = ctx) ]_vars

\* a drain has returned the documents of several pages
C4_Witness ==
    /\ call.op = "consumeBufferedItems"
    /\ call.items = <<1, 2, 3>>
    /\ producer.itemsBuffer = <<>>

\* C5 (as claimed): if every fetch calls back, a call of current calls back.
C5_CurrentCompletes ==
    (call.op = "current" /\ ~call.done) ~> call.done

\* C5 (amended): if every fetch calls back and the fetch layer does not go
\* on returning pages of zero items for ever, a call of current made with an
\* empty buffer on a producer that is not exhausted eventually calls back;
\* after each page of zero items it fetches again.
C5_CurrentCompletesUnlessEmptyPages ==
    ([]<>~(call.op = "current" /\ ~call.done /\ call.lastPageEmpty))
        => ((call.op = "current" /\ ~call.done) ~> (call.done /\ ~call.thrown))

\* current has called back with an item after a page of zero items
C5_Witness ==
    /\ call.op = "current" /\ call.done /\ call.err = Undefined
    /\ call.fetches = 2 /\ call.item # UndefinedItem

\* ------------------------------------------- the comparator as specified
\* the head documents' order-by projections and the partition lower bounds
Compared == comparison.kind # "none"
Res1 == docProds[1].itemsBuffer[1].orderByItems
Res2 == docProds[2].itemsBuffer[1].orderByItems
Min1 == docProds[1].targetPartitionKeyRange.minInclusive
Min2 == docProds[2].targetPartitionKeyRange.minInclusive

Sign(x) == IF x < 0 THEN -1 ELSE IF x > 0 THEN 1 ELSE 0

\* the value kind of an order-by item and its rank
Kind(o) ==
    IF "item" \notin o.props THEN "Absent"
    ELSE IF o.item.js \in {"undefined", "null"} THEN "Null/Undefined"
    ELSE IF o.item.js = "boolean" THEN "Boolean"
    ELSE IF o.item.js = "number" THEN "Number"
    ELSE "String"
Rank(kind) ==
    CASE kind = "Absent" -> 0
      [] kind = "Null/Undefined" -> 1
      [] kind = "Boolean" -> 2
      [] kind = "Number" -> 3
      [] kind = "String" -> 4
Missing(o) == Kind(o) \in {"Absent", "Null/Undefined"}

\* a sorts before b in the order of strings
LexLess(a, b) ==
    \E k \in 1..Len(b) :
        /\ k - 1 <= Len(a)
        /\ \A j \in 1..(k - 1) : a[j] = b[j]
        /\ (k = Len(a) + 1 \/ a[k] < b[k])
\* the ordering of the two partition lower bounds, ascending
TieBreak == IF Min1 = Min2 THEN 0 ELSE IF LexLess(Min1, Min2) THEN -1 ELSE 1

\* the natural order of two values of the same kind
Natural(o1, o2) ==
    IF o1.item.v = o2.item.v THEN 0
    ELSE IF Kind(o1) = "String"
    THEN (IF LexLess(o1.item.v, o2.item.v) THEN -1 ELSE 1)
    ELSE (IF o1.item.v[1] < o2.item.v[1] THEN -1 ELSE 1)

LengthsAgree == Len(Res1) = Len(Res2) /\ Len(Res1) = Len(sortOrder)
KindsAgree == \A i \in 1..Len(sortOrder) : Kind(Res1[i]) = Kind(Res2[i])
\* the keys at which two projections of agreeing kinds are not equal
Unequal ==
    { i \in 1..Len(sortOrder) : ~Missing(Res1[i]) /\ Natural(Res1[i], Res2[i]) # 0 }
FirstUnequal == CHOOSE i \in Unequal : \A j \in Unequal : i <= j
\* what compare is to return for projections of agreeing lengths and kinds
Expected ==
    IF Unequal = {} THEN TieBreak
    ELSE IF sortOrder[FirstUnequal] = "Ascending"
    THEN Natural(Res1[FirstUnequal], Res2[FirstUnequal])
    ELSE -Natural(Res1[FirstUnequal], Res2[FirstUnequal])

\* C6 (as claimed): two producers whose head projections are equal at every
\* key compare as their partition lower bounds do, ascending, under every
\* sort order.
C6_TieBreak ==
    (Compared /\ LengthsAgree /\ Res1 = Res2)
        => (comparison.kind = "return" /\ Sign(comparison.value) = TieBreak)

\* C7 (as claimed): at the first key where the kinds of the two values
\* differ, the earlier keys being equal, compare returns the order of the
\* kind ranks, flipped for a Descending key.
C7_CrossTypeCompare ==
    (Compared /\ LengthsAgree) =>
        \A i \in 1..Len(sortOrder) :
            ( /\ Kind(Res1[i]) # Kind(Res2[i])
              /\ \A j \in 1..(i - 1) : Res1[j] = Res2[j] /\ Kind(Res1[j]) # "Null/Undefined" )
            => /\ comparison.kind = "return"
               /\ Sign(comparison.value) =
                    (IF sortOrder[i] = "Ascending" THEN 1 ELSE -1)
                        * Sign(Rank(Kind(Res1[i])) - Rank(Kind(Res2[i])))

\* the types of the comparator's table other than NoValue, which getType
\* never returns
RankedTypes == {"undefined", "boolean", "number", "string"}

\* C7 (amended): when the types of the two values differ at some key,
\* compare raises the validation error and returns no result, so 5 against
\* "a" under [Ascending] raises; it is compareOrderByItem alone that ranks
\* two values of different types undefined < boolean < number < string.
C7_CrossTypeRaises ==
    (Compared /\ LengthsAgree) =>
        \A i \in 1..Len(sortOrder) :
            LET type1 == getType(Res1[i])
                type2 == getType(Res2[i])
            IN  type1 # type2 =>
                  /\ comparison = ThrowError("Error")
                  /\ (type1 \in RankedTypes /\ type2 \in RankedTypes) =>
                        LET r == compareOrderByItem(Res1[i], Res2[i])
                        IN  /\ r.kind = "return"
                            /\ Sign(r.value) = Sign(Rank(Kind(Res1[i])) - Rank(Kind(Res2[i])))

\* compare was called on the projections [5] and ["a"] under [Ascending]
C7_Witness ==
    /\ Compared
    /\ sortOrder = <<"Ascending">>
    /\ Res1 = << OrderByItem(JsNumber(5)) >>
    /\ Res2 = << OrderByItem(JsString(<<97>>)) >>
    /\ comparison = ThrowError("Error")

\* C8 (as claimed): compare raises the validation error whenever the two
\* projections differ in length, or their length is not that of the sort
\* order, or the kinds of the two values differ at some key.
C8_ValidationFailure ==
    (Compared /\ (~LengthsAgree \/ ~KindsAgree))
        => comparison = ThrowError("Error")

\* C9 (as claimed): projections of agreeing kinds with a key at which both
\* values are missing are compared without error, the keys with missing
\* values counting as equal.
C9_MissingEqual ==
    (Compared /\ LengthsAgree /\ KindsAgree
        /\ \E i \in 1..Len(sortOrder) : Missing(Res1[i]))
        => (comparison.kind = "return" /\ Sign(comparison.value) = Expected)

\* C10: a call of compare leaves both producers as they were, whether it
\* returns or raises.
C10_CompareReadOnly ==
    [][Compare => docProds' = docProds]_vars

\* compare has returned a result on two producers that still hold their
\* head documents
C10_Witness ==
    /\ comparison.kind = "return" /\ comparison.value = -1
    /\ Len(docProds[1].itemsBuffer) = 1 /\ Len(docProds[2].itemsBuffer) = 1

\* ------------------------------------------------- the producer, continued
\* C11: the documents handed out so far by nextItem and by
\* consumeBufferedItems, followed by the buffered ones, are the documents of
\* the fetched pages in fetch order: nothing is handed out twice, skipped or
\* reordered, and bufferMore appends at the tail of the buffer.
C11_FifoDelivery ==
    history.delivered \o producer.itemsBuffer = history.fetched

\* a drain has handed out the documents that followed one handed out by
\* nextItem
C11_Witness ==
    /\ call.op = "consumeBufferedItems" /\ call.items = <<2, 3>>
    /\ history.delivered = <<1, 2, 3>>

\* C12 (as claimed): the producer is exhausted only if a fetch has
\* completed and reported the end of the data.
C12_ExhaustedAfterFetch ==
    producer.allFetched => history.endReported

\* C13 (as claimed): an exhausted producer stays exhausted, its buffer once
\* empty stays empty, and every later current or nextItem reports "no item"
\* without invoking fetchMore.
C13_ExhaustedTerminal ==
    [][ /\ producer.allFetched => producer'.allFetched
        /\ (producer.allFetched /\ producer.itemsBuffer = <<>>) =>
              /\ producer'.itemsBuffer = <<>>
              /\ (CallCurrent \/ CallNextItem) =>
                    /\ call'.done /\ call'.err = Undefined
                    /\ call'.item = UndefinedItem
                    /\ ~fetchMoreInvoked' ]_vars

\* the head of the buffer is still the head after the step
HeadKept ==
    /\ producer'.itemsBuffer # <<>>
    /\ Head(producer'.itemsBuffer) = Head(producer.itemsBuffer)
\* the step is a nextItem that removes the head of the buffer and only it
HeadShifted ==
    /\ CallNextItem
    /\ call'.removed = {Head(producer.itemsBuffer)}
    /\ producer'.itemsBuffer = Tail(producer.itemsBuffer)

\* C14 (as claimed): the head of the buffer stays the head until nextItem
\* removes it; no other operation removes buffered items.
C14_HeadRemovedByNextItemOnly ==
    [][ producer.itemsBuffer # <<>> => (HeadKept \/ HeadShifted) ]_vars

\* C14 (amended): the head of the buffer stays the head until nextItem
\* removes it or consumeBufferedItems hands over the whole buffer; current,
\* bufferMore and peekBufferedItems neither remove nor replace it.
C14_HeadStability ==
    [][ producer.itemsBuffer # <<>> =>
          (HeadKept \/ HeadShifted \/ ConsumeBufferedItems) ]_vars

\* bufferMore has appended a page behind a head that was buffered before
C14_Witness ==
    /\ call.op = "bufferMore" /\ call.done /\ call.defined /\ call.items # <<>>
    /\ producer.itemsBuffer # <<>>
    /\ Head(producer.itemsBuffer) \notin Range(call.items)

\* C15 (as claimed): when current calls back without error, the headers it
\* hands over are all the metadata accumulated up to then, that of the
\* fetches of this call included, and the producer's accumulator is empty
\* afterwards.
C15_MetadataDrained ==
    (call.op = "current" /\ call.done /\ call.err = Undefined)
        => (call.headers = call.metadata /\ producer.respHeaders = getInitialHeader)

\* a step that runs _updateStates without error
UpdateStep == ConsumeBufferedItems \/ (FetchComplete /\ producer'.err = Undefined)
\* the step leaves the cursor and the previous cursor as they were
CursorsKept ==
    /\ producer'.continuationToken = producer.continuationToken
    /\ producer'.previousContinuationToken = producer.previousContinuationToken
\* the step saves the cursor and takes the cursor of the fetch layer
CursorAdvanced ==
    /\ producer'.previousContinuationToken = producer.continuationToken
    /\ producer'.continuationToken = ctx'.continuation
\* the update is told that everything is fetched: a drain with a cursor that
\* is undefined or null, or a fetch that reports absent resources
AllFetchedReported ==
    \/ ConsumeBufferedItems /\ producer.continuationToken \in {Undefined, "null"}
    \/ FetchComplete /\ ctx'.ended

\* C16 (as claimed): an update without error saves and overwrites the
\* cursor when the cursor of the fetch layer differs from it, and changes
\* nothing in the producer, the exhaustion flag included, when it is equal.
C16_EqualCursorChangesNothing ==
    [][ UpdateStep =>
          IF ctx'.continuation # producer.continuationToken
          THEN CursorAdvanced
          ELSE CursorsKept /\ producer'.allFetched = producer.allFetched ]_vars

\* C16 (amended): an update without error saves and overwrites the cursor
\* when the cursor of the fetch layer differs from it and leaves both
\* cursors when it is equal; in either case it sets the exhaustion flag
\* when it is told that everything is fetched, and leaves it otherwise.
C16_CursorBookkeeping ==
    [][ UpdateStep =>
          /\ IF ctx'.continuation # producer.continuationToken
             THEN CursorAdvanced ELSE CursorsKept
          /\ producer'.allFetched = (producer.allFetched \/ AllFetchedReported) ]_vars

\* the producer has saved a cursor and taken a new one
C16_Witness ==
    /\ producer.previousContinuationToken = "t1"
    /\ producer.continuationToken = "t2"
    /\ ctx.continuation = "t2"

\* C19: the error of the producer, once set, is the same in every later
\* state.
C19_ErrorMonotonic ==
    [][ producer.err # Undefined => producer'.err = producer.err ]_vars

\* an update has run on a producer that holds an error
C19_Witness ==
    /\ producer.err # Undefined
    /\ call.op = "consumeBufferedItems" /\ call.errAtCall = producer.err

\* C20: a fetch that completes with an error sets err and leaves the rest
\* of the producer as it was: buffer, cursors and exhaustion flag.
C20_FailedFetchSetsErrOnly ==
    [][ (FetchComplete /\ producer'.err # Undefined) =>
          producer' = [producer EXCEPT !.err = producer'.err] ]_vars

\* a fetch of bufferMore has failed on a producer with buffered documents
\* that is not exhausted
C20_Witness ==
    /\ call.op = "bufferMore" /\ call.done /\ call.fetches = 1
    /\ call.err # Undefined /\ producer.err = call.err
    /\ producer.itemsBuffer # <<>> /\ ~producer.allFetched

\* ----------------------------------------------- the comparator, continued
\* the head projections of a and b pass validateOrderByItems under sortOrder
Passes(a, b) ==
    validateOrderByItems(getOrderByItems(a.itemsBuffer[1]),
                         getOrderByItems(b.itemsBuffer[1]), sortOrder)

\* C17 (as claimed): for projections that pass validation and differ at some
\* key, compare returns the natural order of the values at the first such
\* key, flipped when that key is Descending, whatever the later keys and the
\* partition lower bounds are.
C17_FirstUnequalKeyDecides ==
    (Compared /\ Passes(docProds[1], docProds[2]) /\ Unequal # {}) =>
        /\ comparison.kind = "return"
        /\ Sign(comparison.value) = Expected

\* the producers a third producer of a transitivity check is drawn from
ThirdProducers ==
    { BufferedProducer(min, res) :
        min \in MinBounds,
        res \in { l \in OrderByItemLists : Len(l) = Len(sortOrder) } }
\* a is ordered before b by compare
Before(a, b) ==
    LET r == compare(a, b, sortOrder).out
    IN  r.kind = "return" /\ r.value < 0

\* C18 (as claimed): on producers with distinct lower bounds whose head
\* projections pass validation, compare returns a number that is not zero,
\* compare of the swapped pair returns a number of the opposite sign, and
\* a before b and b before c give a before c.
C18_StrictWeakOrdering ==
    (Compared /\ Min1 # Min2 /\ Passes(docProds[1], docProds[2])) =>
        LET swapped == compare(docProds[2], docProds[1], sortOrder).out
        IN  /\ comparison.kind = "return" /\ swapped.kind = "return"
            /\ comparison.value # 0
            /\ Sign(swapped.value) = -Sign(comparison.value)
            /\ \A c \in ThirdProducers :
                  ( /\ c.targetPartitionKeyRange.minInclusive \notin {Min1, Min2}
                    /\ Passes(docProds[2], c)
                    /\ Before(docProds[1], docProds[2])
                    /\ Before(docProds[2], c) )
                  => Before(docProds[1], c)

====
